---- MODULE Spec2Model ----
(***************************************************************************)
(* Model of marketplace_dashboard.py: a Streamlit script that loads one    *)
(* CSV file through a memoized loader, computes four KPIs, a per-month     *)
(* aggregate and a fixed-size seeded sample, and emits four outputs.       *)
(*                                                                         *)
(* One behaviour is one server process: a sequence of render cycles (the   *)
(* script is re-executed top to bottom on every rerun), with the file at   *)
(* FILE_PATH changing between cycles.  The st.cache_data store and the     *)
(* file survive a rerun; every script-level name is rebound from scratch.  *)
(*                                                                         *)
(* Amounts (simulated_platform_fee, price_gap_abs) are integers in a unit  *)
(* of which every input amount is an even multiple, so that the mean of    *)
(* two amounts taken by the median is exact.                               *)
(*                                                                         *)
(* A table is held as a row count n and a period pat: row i (1-based) is   *)
(* pat[((i-1) % Len(pat)) + 1].  A small table has n = Len(pat) (pat is    *)
(* the table); a table of about SAMPLE_N rows repeats a short period.      *)
(***************************************************************************)
EXTENDS Integers, Sequences, FiniteSets, TLC

\* ------------------------------------------------------------------ bounds
MaxRows == 2
MaxCycles == 2

\* ------------------------------------------------------- program constants
SAMPLE_N == 10000
SEED == 42
FILE_PATH == "marketplace_dashboard_data.csv"

\* --------------------------------------------------------------- sentinels
NaT == 0
NaN == -1
Unparseable == -2
Unbound == -3

\* -------------------------------------------------------------- input rows
RowA ==
  [published_month |-> "2024-02", job_count |-> 20, simulated_platform_fee |-> 20,
   price_gap_abs |-> 30, client_budget_usd |-> 500, country |-> "US",
   budget_category |-> "Mid Budget"]
RowB ==
  [published_month |-> "2024-01", job_count |-> 10, simulated_platform_fee |-> 10,
   price_gap_abs |-> 40, client_budget_usd |-> 100, country |-> "US",
   budget_category |-> "Low Budget"]
RowC ==
  [published_month |-> "", job_count |-> 30, simulated_platform_fee |-> 40,
   price_gap_abs |-> 10, client_budget_usd |-> 2000, country |-> "FR",
   budget_category |-> "High Budget"]
RowD ==
  [published_month |-> "2024-01", job_count |-> 30, simulated_platform_fee |-> 30,
   price_gap_abs |-> 20, client_budget_usd |-> 5000, country |-> "DE",
   budget_category |-> "Premium Budget"]
RowBad ==
  [published_month |-> "not-a-date", job_count |-> 10, simulated_platform_fee |-> 10,
   price_gap_abs |-> 40, client_budget_usd |-> 100, country |-> "US",
   budget_category |-> "Low Budget"]

RowUniverse == {RowA, RowB, RowC}

SeqsUpTo(S, k) == UNION {[1..m -> S] : m \in 0..k}

CsvFile(n, pat) == [kind |-> "csv", n |-> n, pat |-> pat]
MissingFile == [kind |-> "missing", n |-> 0, pat |-> <<>>]
ZeroByteFile == [kind |-> "zero", n |-> 0, pat |-> <<>>]

SmallFiles == {CsvFile(Len(p), p) : p \in SeqsUpTo(RowUniverse, MaxRows)}
ExampleFiles ==
  {CsvFile(3, <<RowB, RowA, RowD>>), CsvFile(4, <<RowB, RowA, RowD, RowC>>),
   CsvFile(3, <<RowB, RowB, RowC>>)}
BadDateFiles == {CsvFile(1, <<RowBad>>), CsvFile(2, <<RowA, RowBad>>)}
BigFiles ==
  {CsvFile(n, <<RowA, RowB, RowD>>) : n \in {SAMPLE_N - 1, SAMPLE_N, SAMPLE_N + 1}}
Files ==
  SmallFiles \cup ExampleFiles \cup BadDateFiles \cup BigFiles
    \cup {MissingFile, ZeroByteFile}

\* ------------------------------------------------------------- data frames
Columns ==
  {"published_month", "job_count", "simulated_platform_fee", "price_gap_abs",
   "client_budget_usd", "country", "budget_category"}

\* pd.DataFrame(): no rows and no columns.
EmptyDataFrame == [n |-> 0, ncols |-> 0, pat |-> <<>>]
UnboundFrame == [n |-> Unbound, ncols |-> Unbound, pat |-> <<>>]

Row(df, i) == df.pat[((i - 1) % Len(df.pat)) + 1]
Cell(df, i, col) == Row(df, i)[col]

\* pd.read_csv(path): one record per data line, every column as read.
ReadCsv(file) == [n |-> file.n, ncols |-> Cardinality(Columns), pat |-> file.pat]

\* errors='coerce': what cannot be converted becomes NaT instead of raising.
ToDatetimeCoerce(text) ==
  CASE text = "2024-01" -> 202401
    [] text = "2024-02" -> 202402
    [] OTHER -> NaT

\* pd.to_datetime on one cell: a month text becomes a date, a blank cell
\* becomes NaT, anything else cannot be converted.
ToDatetime(text) ==
  CASE text = "2024-01" -> 202401
    [] text = "2024-02" -> 202402
    [] text = "" -> NaT
    [] OTHER -> Unparseable

DatetimeRaises(df) ==
  \E j \in DOMAIN df.pat : ToDatetime(df.pat[j].published_month) = Unparseable

ConvertMonthColumn(df) ==
  [df EXCEPT !.pat =
     [j \in DOMAIN df.pat |->
        [df.pat[j] EXCEPT !.published_month = ToDatetime(@)]]]

\* DataFrame.empty: some axis has length 0.
IsEmptyNever(df) == FALSE
IsEmpty(df) == df.n = 0 \/ df.ncols = 0

\* ------------------------------------------------------------- Series.sum
RECURSIVE SumRange(_, _, _, _)
SumRange(df, col, lo, hi) ==
  IF lo > hi THEN 0
  ELSE IF lo = hi THEN Cell(df, lo, col)
  ELSE LET mid == (lo + hi) \div 2
       IN SumRange(df, col, lo, mid) + SumRange(df, col, mid + 1, hi)

RECURSIVE SumSet(_)
SumSet(S) ==
  IF S = {} THEN 0 ELSE LET x == CHOOSE y \in S : TRUE IN x + SumSet(S \ {x})

ColumnValues(df, col) == {Cell(df, i, col) : i \in 1..df.n}

\* A sum that counts every distinct value once.
SeriesSumDistinct(df, col) == SumSet(ColumnValues(df, col))
SeriesSum(df, col) == SumRange(df, col, 1, df.n)

\* Series.nunique
SeriesNunique(df, col) == Cardinality(ColumnValues(df, col))

\* ---------------------------------------------------------- Series.median
RECURSIVE SortedSeq(_)
SortedSeq(S) ==
  IF S = {} THEN <<>>
  ELSE LET m == CHOOSE x \in S : \A y \in S : x <= y
       IN <<m>> \o SortedSeq(S \ {m})

RECURSIVE Blocks(_, _, _)
Blocks(df, col, vals) ==
  IF vals = <<>> THEN <<>>
  ELSE LET v == Head(vals)
           c == Cardinality({i \in 1..df.n : Cell(df, i, col) = v})
       IN [i \in 1..c |-> v] \o Blocks(df, col, Tail(vals))

\* The column's values in ascending order, with their multiplicities.
SortValues(df, col) == Blocks(df, col, SortedSeq(ColumnValues(df, col)))

SeriesMean(df, col) ==
  IF df.n = 0 THEN NaN ELSE SeriesSum(df, col) \div df.n
SeriesMedian(df, col) ==
  IF df.n = 0 THEN NaN
  ELSE LET s == SortValues(df, col)
           n == df.n
       IN IF n % 2 = 1 THEN s[(n + 1) \div 2]
          ELSE (s[n \div 2] + s[(n \div 2) + 1]) \div 2

\* ------------------------------------------- groupby('published_month').agg
\* The group keys: groupby drops the rows whose key is missing (NaT).
MonthKeys(df) == ColumnValues(df, "published_month") \ {NaT}

RECURSIVE FirstSeen(_, _, _)
FirstSeen(df, lo, hi) ==
  IF lo > hi THEN <<>>
  ELSE IF lo = hi
    THEN IF Cell(df, lo, "published_month") = NaT
           THEN <<>> ELSE <<Cell(df, lo, "published_month")>>
  ELSE LET mid == (lo + hi) \div 2
           a == FirstSeen(df, lo, mid)
           b == FirstSeen(df, mid + 1, hi)
       IN a \o SelectSeq(b, LAMBDA x : \A j \in DOMAIN a : a[j] # x)

\* sort=False: the groups in order of first appearance.
GroupKeysUnsorted(df) == FirstSeen(df, 1, df.n)
\* sort=True (the default): the groups in ascending key order.
GroupKeys(df) == SortedSeq(MonthKeys(df))

RECURSIVE SumWhere(_, _, _, _, _)
SumWhere(df, col, key, lo, hi) ==
  IF lo > hi THEN 0
  ELSE IF lo = hi
    THEN IF Cell(df, lo, "published_month") = key THEN Cell(df, lo, col) ELSE 0
  ELSE LET mid == (lo + hi) \div 2
       IN SumWhere(df, col, key, lo, mid) + SumWhere(df, col, key, mid + 1, hi)

GroupByAgg(df) ==
  LET keys == GroupKeys(df)
  IN [k \in 1..Len(keys) |->
        [published_month |-> keys[k],
         job_count |-> SumWhere(df, "job_count", keys[k], 1, df.n),
         simulated_platform_fee |->
           SumWhere(df, "simulated_platform_fee", keys[k], 1, df.n)]]

\* ------------------------------------- DataFrame.sample(n, random_state)
\* The generator stands in for numpy's: RandomState(seed) is a generator
\* whose state is a function of the seed alone, every draw advances it,
\* and a draw without replacement is a prefix of a permutation of the
\* row positions that the generator's state selects.
RandomState(seed) == seed % 65537
NextState(s) == (s * 75 + 74) % 65537

\* random_state=None: the draw continues the generator left by the last one.
SampleRngShared(prev) == prev
\* random_state=42: a fresh generator seeded with SEED at every call.
SampleRng(prev) == RandomState(SEED)

\* replace=False with the size clamped to the number of rows.
DataFrameSampleClamped(df, n, s) ==
  LET m == IF n > df.n THEN df.n ELSE n
      off == NextState(s) % df.n
  IN [ok |-> TRUE,
      rows |-> [i \in 1..m |-> ((off + i - 1) % df.n) + 1],
      rng |-> NextState(s)]
\* replace=False: more rows than the table has cannot be taken.
DataFrameSample(df, n, s) ==
  IF n > df.n
    THEN [ok |-> FALSE, rows |-> <<>>, rng |-> s]
    ELSE LET off == NextState(s) % df.n
         IN [ok |-> TRUE,
             rows |-> [i \in 1..n |-> ((off + i - 1) % df.n) + 1],
             rng |-> NextState(s)]

\* ------------------------------------------------------------- load_data
\* The body of load_data on the file found at the path: what it returns or
\* raises, the elements it emits, and whether it read the file.
MissingFileMsgs == <<"error">>

LoadBody(file) ==
  IF file.kind = "missing"
    THEN [status |-> "return", exc |-> "", value |-> EmptyDataFrame,
          msgs |-> MissingFileMsgs, read |-> 0]
  ELSE IF file.kind = "zero"
    THEN [status |-> "raise", exc |-> "EmptyDataError", value |-> UnboundFrame,
          msgs |-> <<>>, read |-> 1]
  ELSE LET df == ReadCsv(file)
       IN IF DatetimeRaises(df)
            THEN [status |-> "raise", exc |-> "ParseError", value |-> UnboundFrame,
                  msgs |-> <<>>, read |-> 1]
            ELSE [status |-> "return", exc |-> "", value |-> ConvertMonthColumn(df),
                  msgs |-> <<>>, read |-> 1]

\* st.cache_data: one entry per argument value, kept for the process's life;
\* an entry holds the returned value and the elements the call emitted.
NoEntry == [set |-> FALSE, value |-> UnboundFrame, msgs |-> <<>>]

CacheLookupMiss(c, path) == NoEntry
CacheLookup(c, path) == c[path]

\* On a hit the elements recorded with the entry are emitted again.
ReplayNothing(entry) == <<>>
ReplayMsgs(entry) == entry.msgs

\* ---------------------------------------------------------- control flow
\* An exception nothing catches ends the script run; otherwise the script
\* goes on to its next statement.
GotoSwallow(ok, next) == next
Goto(ok, next) == IF ok THEN next ELSE "exception"

Halted == {"stopped", "exception", "done"}

\* ------------------------------------------------------------------ state
NotRun == [kind |-> "none", n |-> 0, pat |-> <<>>]

VARIABLES
  cache,                   \* st.cache_data store of load_data, by argument
  pc,                      \* the statement the script run is at
  cycle,                   \* number of the current script run
  my_dashboard_data, TOTAL_PROJECTS, TOTAL_CLIENT_COUNTRIES, AVG_FEE_PER_JOB,
  MEDIAN_FRICTION, time_series_data, plot_data_sample,
  out,                     \* elements emitted by the current script run
  exc,                     \* the exception that ended the current run, or ""
  rng,                     \* state of the generator the last sample left
  reads,                   \* history: pd.read_csv calls on FILE_PATH, all runs
  run_reads,               \* history: pd.read_csv calls of the current run
  at_path,                 \* history: kind of file at FILE_PATH at this run's call
  body_file,               \* history: the file load_data's body ran on in this run
  hit,                     \* history: this run's call was answered by the cache
  memo_src,                \* history: kind of file the memoized call found
  sample_log               \* history: the table and the rows of every sample

vars ==
  <<cache, pc, cycle, my_dashboard_data, TOTAL_PROJECTS,
    TOTAL_CLIENT_COUNTRIES, AVG_FEE_PER_JOB, MEDIAN_FRICTION, time_series_data,
    plot_data_sample, out, exc, rng, reads, run_reads, at_path, body_file, hit,
    memo_src, sample_log>>

scriptNames ==
  <<TOTAL_PROJECTS, TOTAL_CLIENT_COUNTRIES, AVG_FEE_PER_JOB, MEDIAN_FRICTION,
    time_series_data, plot_data_sample>>
kpiNames ==
  <<TOTAL_PROJECTS, TOTAL_CLIENT_COUNTRIES, AVG_FEE_PER_JOB, MEDIAN_FRICTION>>
history == <<reads, run_reads, at_path, body_file, hit, memo_src, sample_log>>

Init ==
  /\ cache = [p \in {FILE_PATH} |-> NoEntry]
  /\ pc = "load"
  /\ cycle = 1
  /\ my_dashboard_data = UnboundFrame
  /\ TOTAL_PROJECTS = Unbound
  /\ TOTAL_CLIENT_COUNTRIES = Unbound
  /\ AVG_FEE_PER_JOB = Unbound
  /\ MEDIAN_FRICTION = Unbound
  /\ time_series_data = <<>>
  /\ plot_data_sample = <<>>
  /\ out = <<>>
  /\ exc = ""
  /\ rng = 0
  /\ reads = 0
  /\ run_reads = 0
  /\ at_path = ""
  /\ body_file = NotRun
  /\ hit = FALSE
  /\ memo_src = "none"
  /\ sample_log = <<>>

\* my_dashboard_data = load_data(FILE_PATH), through st.cache_data; file is
\* what the environment has left at FILE_PATH by the time of the call.
LoadData(file) ==
  /\ pc = "load"
  /\ at_path' = file.kind
  /\ LET entry == CacheLookup(cache, FILE_PATH)
     IN IF entry.set
          THEN /\ my_dashboard_data' = entry.value
               /\ out' = out \o ReplayMsgs(entry)
               /\ pc' = "check"
               /\ hit' = TRUE
               /\ UNCHANGED <<cache, exc, reads, run_reads, body_file, memo_src>>
          ELSE LET r == LoadBody(file)
               IN /\ reads' = reads + r.read
                  /\ run_reads' = run_reads + r.read
                  /\ body_file' = file
                  /\ hit' = FALSE
                  /\ IF r.status = "raise"
                       THEN /\ exc' = r.exc
                            /\ out' = Append(out \o r.msgs, "exception")
                            /\ pc' = "exception"
                            /\ UNCHANGED <<cache, my_dashboard_data, memo_src>>
                       ELSE /\ my_dashboard_data' = r.value
                            /\ out' = out \o r.msgs
                            /\ cache' = [cache EXCEPT ![FILE_PATH] =
                                 [set |-> TRUE, value |-> r.value, msgs |-> r.msgs]]
                            /\ memo_src' = file.kind
                            /\ pc' = "check"
                            /\ exc' = exc
  /\ UNCHANGED <<cycle, scriptNames, rng, sample_log>>

\* if my_dashboard_data.empty: st.stop()
CheckEmpty ==
  /\ pc = "check"
  /\ pc' = IF IsEmpty(my_dashboard_data) THEN "stopped" ELSE "kpi"
  /\ UNCHANGED <<cache, cycle, my_dashboard_data, scriptNames, out, exc, rng,
                 history>>

\* The four KPI assignments.  Selecting a column of a frame without columns
\* raises KeyError.
ComputeKPIs ==
  /\ pc = "kpi"
  /\ IF my_dashboard_data.ncols = 0
       THEN /\ exc' = "KeyError"
            /\ out' = Append(out, "exception")
            /\ pc' = Goto(FALSE, "cards")
            /\ UNCHANGED kpiNames
       ELSE /\ TOTAL_PROJECTS' = SeriesSum(my_dashboard_data, "job_count")
            /\ TOTAL_CLIENT_COUNTRIES' = SeriesNunique(my_dashboard_data, "country")
            /\ AVG_FEE_PER_JOB' =
                 SeriesMedian(my_dashboard_data, "simulated_platform_fee")
            /\ MEDIAN_FRICTION' = SeriesMedian(my_dashboard_data, "price_gap_abs")
            /\ pc' = Goto(TRUE, "cards")
            /\ UNCHANGED <<out, exc>>
  /\ UNCHANGED <<cache, cycle, my_dashboard_data, time_series_data,
                 plot_data_sample, rng, history>>

\* Page title and the four st.metric cards.
RenderKPIs ==
  /\ pc = "cards"
  /\ out' = out \o <<"title", "kpi_cards">>
  /\ pc' = "aggregate"
  /\ UNCHANGED <<cache, cycle, my_dashboard_data, scriptNames, exc, rng,
                 history>>

\* time_series_data = my_dashboard_data.groupby(...).agg(...)
Aggregate ==
  /\ pc = "aggregate"
  /\ time_series_data' = GroupByAgg(my_dashboard_data)
  /\ pc' = "fig_time"
  /\ UNCHANGED <<cache, cycle, my_dashboard_data, kpiNames, plot_data_sample,
                 out, exc, rng, history>>

\* The line chart; its annotation is pinned to the last month of the
\* aggregate (.iloc[-1]), which raises IndexError on an aggregate without rows.
RenderTimeSeries ==
  /\ pc = "fig_time"
  /\ IF time_series_data = <<>>
       THEN /\ exc' = "IndexError"
            /\ out' = Append(out, "exception")
            /\ pc' = Goto(FALSE, "sample")
       ELSE /\ out' = Append(out, "fig_time")
            /\ pc' = Goto(TRUE, "sample")
            /\ exc' = exc
  /\ UNCHANGED <<cache, cycle, my_dashboard_data, scriptNames, rng, history>>

\* plot_data_sample = my_dashboard_data.sample(n=10000, random_state=42)
Sample ==
  /\ pc = "sample"
  /\ LET r == DataFrameSample(my_dashboard_data, SAMPLE_N, SampleRng(rng))
     IN /\ rng' = r.rng
        /\ IF r.ok
             THEN /\ plot_data_sample' = r.rows
                  /\ sample_log' =
                       Append(sample_log, [table |-> my_dashboard_data, rows |-> r.rows])
                  /\ pc' = Goto(TRUE, "fig_scatter")
                  /\ UNCHANGED <<out, exc>>
             ELSE /\ exc' = "ValueError"
                  /\ out' = Append(out, "exception")
                  /\ pc' = Goto(FALSE, "fig_scatter")
                  /\ UNCHANGED <<plot_data_sample, sample_log>>
  /\ UNCHANGED <<cache, cycle, my_dashboard_data, kpiNames, time_series_data,
                 reads, run_reads, at_path, body_file, hit, memo_src>>

\* The scatter chart over the sample.
RenderScatter ==
  /\ pc = "fig_scatter"
  /\ out' = Append(out, "fig_scatter")
  /\ pc' = "fig_box"
  /\ UNCHANGED <<cache, cycle, my_dashboard_data, scriptNames, exc, rng,
                 history>>

\* The box chart over the full table.
RenderBox ==
  /\ pc = "fig_box"
  /\ out' = Append(out, "fig_box")
  /\ pc' = "insight"
  /\ UNCHANGED <<cache, cycle, my_dashboard_data, scriptNames, exc, rng,
                 history>>

\* The closing markdown block; the script run ends.
RenderInsight ==
  /\ pc = "insight"
  /\ out' = Append(out, "insight")
  /\ pc' = "done"
  /\ UNCHANGED <<cache, cycle, my_dashboard_data, scriptNames, exc, rng,
                 history>>

\* The framework runs the script again from the top in the same process.
Rerun ==
  /\ pc \in Halted
  /\ cycle < MaxCycles
  /\ cycle' = cycle + 1
  /\ pc' = "load"
  /\ my_dashboard_data' = UnboundFrame
  /\ TOTAL_PROJECTS' = Unbound
  /\ TOTAL_CLIENT_COUNTRIES' = Unbound
  /\ AVG_FEE_PER_JOB' = Unbound
  /\ MEDIAN_FRICTION' = Unbound
  /\ time_series_data' = <<>>
  /\ plot_data_sample' = <<>>
  /\ out' = <<>>
  /\ exc' = ""
  /\ run_reads' = 0
  /\ at_path' = ""
  /\ body_file' = NotRun
  /\ hit' = FALSE
  /\ UNCHANGED <<cache, rng, reads, memo_src, sample_log>>

Next ==
  \/ \E file \in Files : LoadData(file)
  \/ CheckEmpty
  \/ ComputeKPIs
  \/ RenderKPIs
  \/ Aggregate
  \/ RenderTimeSeries
  \/ Sample
  \/ RenderScatter
  \/ RenderBox
  \/ RenderInsight
  \/ Rerun

Spec == Init /\ [][Next]_vars

\* ======================================================================
\* Properties
\* ======================================================================

\* Row counts read off the period: the number of rows of df that are copies
\* of the period's j-th row.
Occ(df, j) == IF j > df.n THEN 0 ELSE ((df.n - j) \div Len(df.pat)) + 1

RECURSIVE OccSum(_, _)
OccSum(df, J) ==
  IF J = {} THEN 0
  ELSE LET j == CHOOSE k \in J : TRUE IN Occ(df, j) + OccSum(df, J \ {j})

PatValues(df, col) == {df.pat[j][col] : j \in DOMAIN df.pat}
CountEq(df, col, v) == OccSum(df, {j \in DOMAIN df.pat : df.pat[j][col] = v})
CountLt(df, col, v) == OccSum(df, {j \in DOMAIN df.pat : df.pat[j][col] < v})
CountLe(df, col, v) == OccSum(df, {j \in DOMAIN df.pat : df.pat[j][col] <= v})

RECURSIVE WeightedSum(_, _, _)
WeightedSum(df, col, V) ==
  IF V = {} THEN 0
  ELSE LET v == CHOOSE w \in V : TRUE
       IN v * CountEq(df, col, v) + WeightedSum(df, col, V \ {v})

\* Sum of col over the rows of df whose month is m.
RECURSIVE MonthSum(_, _, _, _)
MonthSum(df, col, m, J) ==
  IF J = {} THEN 0
  ELSE LET j == CHOOSE k \in J : TRUE
       IN (IF df.pat[j].published_month = m THEN Occ(df, j) * df.pat[j][col] ELSE 0)
            + MonthSum(df, col, m, J \ {j})

\* The k-th smallest value of the column, by counting.
KthSmallest(df, col, k) ==
  CHOOSE v \in PatValues(df, col) : CountLt(df, col, v) < k /\ k <= CountLe(df, col, v)

IsMedian(df, col, m) ==
  IF df.n % 2 = 1
    THEN m = KthSmallest(df, col, (df.n + 1) \div 2)
    ELSE 2 * m = KthSmallest(df, col, df.n \div 2)
                   + KthSmallest(df, col, (df.n \div 2) + 1)

ColumnSeq(df, col) == [i \in 1..df.n |-> Cell(df, i, col)]

DateTexts == {"2024-01", "2024-02"}
HasBadDate(file) ==
  /\ file.kind = "csv"
  /\ \E j \in DOMAIN file.pat : file.pat[j].published_month \notin DateTexts \cup {""}

Loaded == pc \notin {"load"} /\ my_dashboard_data # UnboundFrame
KpisBound == TOTAL_PROJECTS # Unbound
Aggregated ==
  \/ pc \in {"fig_time", "sample", "fig_scatter", "fig_box", "insight", "done"}
  \/ exc \in {"IndexError", "ValueError"}
Sampled == pc \in {"fig_scatter", "fig_box", "insight", "done"}
NothingComputed ==
  /\ TOTAL_PROJECTS = Unbound /\ TOTAL_CLIENT_COUNTRIES = Unbound
  /\ AVG_FEE_PER_JOB = Unbound /\ MEDIAN_FRICTION = Unbound
  /\ time_series_data = <<>> /\ plot_data_sample = <<>>

OutputOrder == <<"kpi_cards", "fig_time", "fig_scatter", "fig_box">>
MainOut ==
  SelectSeq(out, LAMBDA e : e \in {"kpi_cards", "fig_time", "fig_scatter", "fig_box"})
IsPrefix(s, t) == Len(s) <= Len(t) /\ \A i \in 1..Len(s) : s[i] = t[i]

\* C1 (as stated): whenever the path does not exist at the time of a render
\* cycle's load_data call, the cycle emits the error message first and halts
\* at st.stop() with no KPI card or chart and no exception.
C1_Original ==
  at_path = "missing" => out = <<"error">> /\ pc \in {"check", "stopped"}

\* C1 (amended): whenever the path does not exist at the time of the call and
\* no result computed from an existing file is memoized for it, the cycle
\* emits the error message first and halts at st.stop() with no KPI card or
\* chart and no exception.
C1_MissingPathHalts ==
  (at_path = "missing" /\ (~hit \/ memo_src = "missing"))
    => /\ out = <<"error">>
       /\ pc \in {"check", "stopped"}
       /\ exc = ""
       /\ NothingComputed

C1_Witness ==
  at_path = "missing" /\ hit /\ memo_src = "missing" /\ pc = "stopped"
    /\ out = <<"error">>

\* C2: a cycle whose load_data body ran on a file with an unconvertible
\* published_month ends at that call: the exception is shown to the user, no
\* KPI, aggregate, sample or chart is computed or emitted, and the file is
\* read once.
C2_ParseErrorTerminal ==
  HasBadDate(body_file)
    => /\ pc = "exception"
       /\ exc = "ParseError"
       /\ out = <<"exception">>
       /\ my_dashboard_data = UnboundFrame
       /\ NothingComputed
       /\ run_reads = 1

C2_Witness ==
  body_file = CsvFile(2, <<RowA, RowBad>>) /\ pc = "exception" /\ exc = "ParseError"

\* C3 (as stated): over all render cycles of a process the file at the path
\* is read at most once.
C3_Original == reads <= 1

\* C3 (amended): once a call of load_data for the path has returned, no later
\* call reads the file or changes the memoized entry, and every later call
\* returns the memoized value.
C3_MemoizedOnceReturned ==
  [][cache[FILE_PATH].set
       => /\ reads' = reads
          /\ cache' = cache
          /\ (pc = "load" /\ pc' # "load"
                => my_dashboard_data' = cache[FILE_PATH].value /\ hit')]_vars

C3_Witness ==
  hit /\ cycle = 2 /\ reads = 1 /\ at_path = "missing" /\ memo_src = "csv"
    /\ my_dashboard_data.n = 3

\* C4: in a cycle whose loaded table has zero rows, the run halts at the
\* emptiness check: no KPI is computed and no dashboard element is emitted.
C4_NoKpiOnEmptyTable ==
  (Loaded /\ my_dashboard_data.n = 0)
    => /\ pc \in {"check", "stopped"}
       /\ NothingComputed
       /\ \A i \in 1..Len(out) : out[i] = "error"

C4_Witness ==
  pc = "stopped" /\ body_file = CsvFile(0, <<>>) /\ my_dashboard_data.n = 0
    /\ my_dashboard_data.ncols > 0 /\ out = <<>>

\* C5: the aggregate has one row per distinct month of the table, in strictly
\* ascending month order, and each row holds the sums of job_count and
\* simulated_platform_fee over exactly the table's rows of that month.
C5_AggregatePerMonth ==
  Aggregated =>
    LET df == my_dashboard_data
        ts == time_series_data
        months == PatValues(df, "published_month") \ {NaT}
    IN /\ Len(ts) = Cardinality(months)
       /\ {ts[k].published_month : k \in 1..Len(ts)} = months
       /\ \A k \in 1..(Len(ts) - 1) :
            ts[k].published_month < ts[k + 1].published_month
       /\ \A k \in 1..Len(ts) :
            /\ ts[k].job_count =
                 MonthSum(df, "job_count", ts[k].published_month, DOMAIN df.pat)
            /\ ts[k].simulated_platform_fee =
                 MonthSum(df, "simulated_platform_fee", ts[k].published_month,
                          DOMAIN df.pat)

C5_Witness ==
  pc = "sample" /\ my_dashboard_data.n = SAMPLE_N
    /\ Cell(my_dashboard_data, 1, "published_month") = 202402
    /\ Cell(my_dashboard_data, 2, "published_month") = 202401
    /\ Len(time_series_data) = 2
    /\ time_series_data[1] =
         [published_month |-> 202401, job_count |-> 133320,
          simulated_platform_fee |-> 133320]

\* C6: on a non-empty table the sampler either returns exactly SAMPLE_N
\* pairwise distinct rows of the table (the table has at least SAMPLE_N
\* rows) or fails without a sample (it has fewer).
C6_SampleAllOrNothing ==
  /\ Sampled
       => /\ my_dashboard_data.n >= SAMPLE_N
          /\ Len(plot_data_sample) = SAMPLE_N
          /\ Cardinality({plot_data_sample[i] : i \in 1..SAMPLE_N}) = SAMPLE_N
          /\ \A i \in 1..SAMPLE_N : plot_data_sample[i] \in 1..my_dashboard_data.n
  /\ ~Sampled => plot_data_sample = <<>>
  /\ exc = "ValueError" => my_dashboard_data.n < SAMPLE_N
  /\ (Loaded /\ my_dashboard_data.n \in 1..(SAMPLE_N - 1)) => ~Sampled

C6_Witness ==
  pc = "fig_scatter" /\ my_dashboard_data.n = SAMPLE_N + 1
    /\ Len(plot_data_sample) = SAMPLE_N

\* C7: any two samples of the same table, taken in whatever cycles, select
\* the same rows.
C7_SampleDeterministic ==
  \A a, b \in DOMAIN sample_log :
    sample_log[a].table = sample_log[b].table
      => sample_log[a].rows = sample_log[b].rows

C7_Witness ==
  Len(sample_log) >= 2 /\ sample_log[1].table = sample_log[2].table

\* C8: total_projects is the sum of job_count over all rows of the table,
\* every row counted as often as it occurs (10, 20, 30 give 60).
C8_TotalProjectsIsSum ==
  KpisBound =>
    /\ TOTAL_PROJECTS =
         WeightedSum(my_dashboard_data, "job_count",
                     PatValues(my_dashboard_data, "job_count"))
    /\ (ColumnSeq(my_dashboard_data, "job_count") = <<10, 20, 30>>
          => TOTAL_PROJECTS = 60)

C8_Witness ==
  KpisBound /\ ColumnSeq(my_dashboard_data, "job_count") = <<10, 20, 30>>
    /\ TOTAL_PROJECTS = 60

\* C9: avg_fee_per_job is the median of simulated_platform_fee and
\* median_friction the median of price_gap_abs: the middle value of the
\* sorted column for an odd row count, the mean of the two middle values
\* for an even one (10, 20, 30, 40 give 25).
C9_KpisAreMedians ==
  KpisBound =>
    /\ IsMedian(my_dashboard_data, "simulated_platform_fee", AVG_FEE_PER_JOB)
    /\ IsMedian(my_dashboard_data, "price_gap_abs", MEDIAN_FRICTION)
    /\ (ColumnSeq(my_dashboard_data, "simulated_platform_fee") = <<10, 20, 30, 40>>
          => AVG_FEE_PER_JOB = 25)

C9_Witness ==
  KpisBound /\ ColumnSeq(my_dashboard_data, "simulated_platform_fee") = <<10, 10, 40>>
    /\ AVG_FEE_PER_JOB = 10
    /\ 3 * AVG_FEE_PER_JOB # 10 + 10 + 40

\* C10: the four outputs are emitted in the order KPI cards, time series,
\* scatter, box, each at most once and none before its predecessors; a run
\* that fails keeps exactly the outputs emitted before the failing step and
\* emits none after it.
C10_OutputOrder ==
  /\ IsPrefix(MainOut, OutputOrder)
  /\ exc # "" => pc = "exception" /\ out[Len(out)] = "exception"
  /\ exc \in {"ParseError", "EmptyDataError"} => MainOut = <<>>
  /\ exc = "IndexError" => MainOut = <<"kpi_cards">>
  /\ exc = "ValueError" => MainOut = <<"kpi_cards", "fig_time">>
  /\ pc = "done" => MainOut = OutputOrder

C10_Witness ==
  exc = "ValueError" /\ pc = "exception" /\ MainOut = <<"kpi_cards", "fig_time">>

====
